---- MODULE Spec2Model ----
(***************************************************************************)
(* Model of src/deno_dir.rs: the module resolver (resolve_module), the     *)
(* remote-source mirror (fetch_remote_source), the compile cache           *)
(* (cache_path / load_cache / code_cache) and their composition            *)
(* (code_fetch).                                                           *)
(*                                                                         *)
(* Strings and paths are sequences of one-character strings, so that       *)
(* concatenation, prefixes, separators and URI syntax are computed on the  *)
(* characters as the code computes them on bytes.  Option<T> is a sequence *)
(* of length 0 (None) or 1 (Some).                                         *)
(***************************************************************************)
EXTENDS Integers, Sequences, FiniteSets, TLC

(* ------------------------------------------------------------------ *)
(* Option and string helpers                                            *)
(* ------------------------------------------------------------------ *)
None == <<>>

Some(x) == <<x>>

IsSome(o) == Len(o) = 1

Unwrap(o) == o[1]

SEP == "/"

EndsWith(s, c) == Len(s) > 0 /\ s[Len(s)] = c

StartsWith(s, p) == Len(s) >= Len(p) /\ SubSeq(s, 1, Len(p)) = p

Tail0(s, i) == SubSeq(s, i, Len(s))

\* index of the first position of s holding a character of cs, 0 if none
IndexOfAny(s, cs) ==
  LET hits == {i \in 1..Len(s) : s[i] \in cs}
  IN IF hits = {} THEN 0 ELSE CHOOSE i \in hits : \A j \in hits : i <= j

\* index of the last separator of s, 0 if none
LastSepIndex(s) ==
  LET hits == {i \in 1..Len(s) : s[i] = SEP}
  IN IF hits = {} THEN 0 ELSE CHOOSE i \in hits : \A j \in hits : j <= i

(* ------------------------------------------------------------------ *)
(* std::path on a unix target, as used by the source                    *)
(* ------------------------------------------------------------------ *)
is_absolute(p) == Len(p) > 0 /\ p[1] = SEP

\* Components::trim_right: drop the trailing separators and the trailing "."
\* components, keeping a lone root and a leading "."
RECURSIVE TrimRight(_)
TrimRight(p) ==
  IF Len(p) > 1 /\ p[Len(p)] = SEP THEN TrimRight(SubSeq(p, 1, Len(p) - 1))
  ELSE IF Len(p) > 1 /\ p[Len(p)] = "." /\ p[Len(p) - 1] = SEP
  THEN TrimRight(SubSeq(p, 1, Len(p) - 1))
  ELSE p

\* Path::new(s).components().as_path()
components_as_path(p) == TrimRight(p)

\* Path::parent: None for the root and for the empty path
parent(p) ==
  LET t == TrimRight(p)
      i == LastSepIndex(t)
  IN IF t = <<>> \/ t = <<SEP>> THEN None
     ELSE IF i = 0 THEN Some(<<>>)
     ELSE Some(TrimRight(SubSeq(t, 1, i)))

\* PathBuf::push: an absolute component replaces the buffer
push(buf, c) ==
  IF is_absolute(c) THEN c
  ELSE IF Len(buf) > 0 /\ buf[Len(buf)] # SEP THEN buf \o <<SEP>> \o c
  ELSE buf \o c

\* Path::join
join(base, c) == push(base, c)

(* ------------------------------------------------------------------ *)
(* hyper::Uri as used by the source: parse, scheme_part, host, path,    *)
(* to_string                                                            *)
(* ------------------------------------------------------------------ *)
SchemeSep == <<":", "/", "/">>

\* module_specifier.parse::<Uri>() reduced to the parts the source reads
ParseUri(s) ==
  LET i == IndexOfAny(s, {":"})
      hasScheme == /\ i > 1
                   /\ IndexOfAny(SubSeq(s, 1, i), {SEP, "?"}) = 0
                   /\ StartsWith(Tail0(s, i), SchemeSep)
                   /\ Len(s) > i + 2
                   /\ s[i + 3] \notin {SEP, "?"}
      rest == Tail0(s, i + 3)
      j == IndexOfAny(rest, {SEP, "?"})
      authority == IF j = 0 THEN rest ELSE SubSeq(rest, 1, j - 1)
      tail == IF j = 0 THEN <<>> ELSE Tail0(rest, j)
      q == IndexOfAny(tail, {"?"})
      rawpath == IF q = 0 THEN tail ELSE SubSeq(tail, 1, q - 1)
      k == IndexOfAny(authority, {":"})
  IN IF hasScheme
     THEN [scheme |-> Some(SubSeq(s, 1, i - 1)),
           authority |-> authority,
           host |-> IF k = 0 THEN authority ELSE SubSeq(authority, 1, k - 1),
           port |-> IF k = 0 THEN <<>> ELSE Tail0(authority, k + 1),
           path |-> IF rawpath = <<>> THEN <<SEP>> ELSE rawpath,
           query |-> IF q = 0 THEN <<>> ELSE Tail0(tail, q)]
     ELSE [scheme |-> None, authority |-> <<>>, host |-> <<>>, port |-> <<>>,
           path |-> s, query |-> <<>>]

\* Uri::to_string
UriToString(u) == Unwrap(u.scheme) \o SchemeSep \o u.authority \o u.path \o u.query

(* ------------------------------------------------------------------ *)
(* The filesystem the source reaches through std::fs and deno_fs:       *)
(* fl maps the canonical path of every regular file to its content, ds  *)
(* is the set of canonical paths of the directories.                    *)
(* ------------------------------------------------------------------ *)
\* working directory of the process, against which relative paths resolve
Cwd == <<"/", "s">>

RECURSIVE Collapse(_)
Collapse(p) ==
  IF Len(p) < 2 THEN p
  ELSE IF p[1] = SEP /\ p[2] = SEP THEN Collapse(Tail(p))
  ELSE <<p[1]>> \o Collapse(Tail(p))

\* whether a separator follows a separator in p
HasRepeatedSep(p) == \E i \in 1..(Len(p) - 1) : p[i] = SEP /\ p[i + 1] = SEP

\* p made absolute against the working directory
Absolute(p) == IF is_absolute(p) THEN p ELSE Cwd \o <<SEP>> \o p

\* the file a path names: made absolute, repeated and trailing separators dropped
Canon(p) ==
  IF HasRepeatedSep(Absolute(p)) THEN TrimRight(Collapse(Absolute(p)))
  ELSE TrimRight(Absolute(p))

\* the directories above a canonical path
Ancestors(c) == {TrimRight(SubSeq(c, 1, i)) : i \in {j \in 1..(Len(c) - 1) : c[j] = SEP}}

\* Path::exists
PathExists(fl, ds, p) ==
  \/ Canon(p) \in ds
  \/ Canon(p) \in DOMAIN fl /\ ~EndsWith(p, SEP)

\* fs::read_to_string; kind is the io::ErrorKind of a failure
ReadToString(fl, ds, p) ==
  LET c == Canon(p)
  IN IF c \in DOMAIN fl /\ ~EndsWith(p, SEP)
     THEN [ok |-> TRUE, val |-> fl[c], kind |-> "None"]
     ELSE IF c \in DOMAIN fl \/ c \in ds \/ Ancestors(c) \cap DOMAIN fl # {}
     THEN [ok |-> FALSE, val |-> <<>>, kind |-> "Other"]
     ELSE [ok |-> FALSE, val |-> <<>>, kind |-> "NotFound"]

\* fs::write / deno_fs::write_file_sync: create or truncate, then write
WriteFile(fl, ds, p, data) ==
  LET c == Canon(p)
      ok == /\ ~EndsWith(p, SEP)
            /\ c \notin ds
            /\ Ancestors(c) \subseteq ds
  IN [ok |-> ok, files |-> IF ok THEN (c :> data) @@ fl ELSE fl]

\* fs::create_dir_all
CreateDirAll(fl, ds, d) ==
  LET c == Canon(d)
      need == Ancestors(c) \cup {c}
      ok == d = <<>> \/ need \cap DOMAIN fl = {}
  IN [ok |-> ok, dirs |-> IF ok /\ d # <<>> THEN ds \cup need ELSE ds]

(* ------------------------------------------------------------------ *)
(* DenoDir                                                              *)
(* ------------------------------------------------------------------ *)
\* DenoDir::new: root, gen and deps
Root == <<"/", "r">>

Gen == join(Root, <<"g", "e", "n">>)

Deps == join(Root, <<"d", "e", "p", "s">>)

\* ring's SHA1 digest, taken as collision-free: the digest stands for the
\* bytes it was computed over
Sha1(bytes) == bytes

\* the {:02x} loop: an injective encoding of the digest into characters that
\* are not path separators
Hex(digest) == [i \in 1..Len(digest) |-> IF digest[i] = SEP THEN "%" ELSE digest[i]]

\* ctx.update(filename); ctx.update(source_code); hex of ctx.finish()
source_code_hash(filename, source_code) == Hex(Sha1(filename \o source_code))

cache_path(filename, source_code) ==
  join(Gen, source_code_hash(filename, source_code) \o <<".", "j", "s">>)

\* a lookup that hashes the source text before the filename
load_cache_swapped(fl, ds, filename, source_code) ==
  ReadToString(fl, ds, cache_path(source_code, filename))

load_cache(fl, ds, filename, source_code) ==
  ReadToString(fl, ds, cache_path(filename, source_code))

\* a store that writes whether or not the slot exists
code_cache_overwrite(fl, ds, filename, source_code, output_code) ==
  LET w == WriteFile(fl, ds, cache_path(filename, source_code), output_code)
  IN [ok |-> w.ok, files |-> w.files]

\* a store that writes the source text in place of the output
code_cache_stores_source(fl, ds, filename, source_code, output_code) ==
  LET cp == cache_path(filename, source_code)
      w == WriteFile(fl, ds, cp, source_code)
  IN IF PathExists(fl, ds, cp)
     THEN [ok |-> TRUE, files |-> fl]
     ELSE [ok |-> w.ok, files |-> w.files]

\* code_cache: the result and the files after the call
code_cache(fl, ds, filename, source_code, output_code) ==
  LET cp == cache_path(filename, source_code)
      w == WriteFile(fl, ds, cp, output_code)
  IN IF PathExists(fl, ds, cp)
     THEN [ok |-> TRUE, files |-> fl]
     ELSE [ok |-> w.ok, files |-> w.files]

\* a test of the slot that never finds it
slot_exists_never(fl, ds, filename, source_code) == FALSE

\* line 119 taken alone: cache_path.exists()
slot_exists(fl, ds, filename, source_code) ==
  PathExists(fl, ds, cache_path(filename, source_code))

\* line 122, first half: fs::write opens the slot with File::create, which
\* creates it or truncates it
file_create(fl, ds, filename, source_code) ==
  WriteFile(fl, ds, cache_path(filename, source_code), <<>>)

\* bytes written at offset 0 over the content present
Overlay(cur, data) == data \o SubSeq(cur, Len(data) + 1, Len(cur))

\* line 122, second half: write_all on the descriptor File::create returned
file_write_all(fl, filename, source_code, output_code) ==
  LET c == Canon(cache_path(filename, source_code))
  IN (c :> Overlay(fl[c], output_code)) @@ fl

\* ModuleLocation::Path(p) and ModuleLocation::Url(u)
LocPath(p) == [tag |-> "Path", str |-> p, uri |-> ParseUri(<<>>)]

LocUrl(u) == [tag |-> "Url", str |-> UriToString(u), uri |-> u]

\* ModuleLocation::to_string
to_string(m) == IF m.tag = "Path" THEN m.str ELSE UriToString(m.uri)

Http == <<"h", "t", "t", "p">>

Https == <<"h", "t", "t", "p", "s">>

is_remote(m) ==
  /\ m.tag = "Url"
  /\ IsSome(m.uri.scheme)
  /\ Unwrap(m.uri.scheme) \in {Http, Https}

ASSET_PREFIX == <<"/", "$", "a", "s", "s", "e", "t", "$", "/">>

\* deno_fs::normalize_path on a unix target
normalize_path(p) == p

\* a mirror path whose host segment keeps the port
get_cache_filename_with_port(basedir, url) ==
  push(push(basedir, url.authority), Tail(url.path))

get_cache_filename(basedir, url) ==
  push(push(basedir, url.host), Tail(url.path))

\* a policy that forgets the reload flag
must_download_ignores_reload(fl, ds, rl, filename) == ~PathExists(fl, ds, filename)

\* a policy that never reuses the mirror
must_download_always(fl, ds, rl, filename) == TRUE

\* line 134: whether the source is retrieved from the network
must_download(fl, ds, rl, filename) == rl \/ ~PathExists(fl, ds, filename)

\* a download that creates the parent directories before it retrieves
download_mkdir_first(fl, ds, filename, net) ==
  LET mk == IF IsSome(parent(filename))
            THEN CreateDirAll(fl, ds, Unwrap(parent(filename)))
            ELSE [ok |-> TRUE, dirs |-> ds]
      w == WriteFile(fl, mk.dirs, filename, Unwrap(net))
  IN IF ~mk.ok
     THEN [kind |-> "err", err |-> "Other", src |-> <<>>,
           files |-> fl, dirs |-> ds, nets |-> 0]
     ELSE IF ~IsSome(net)
     THEN [kind |-> "err", err |-> "Fetch", src |-> <<>>,
           files |-> fl, dirs |-> mk.dirs, nets |-> 1]
     ELSE IF ~w.ok
     THEN [kind |-> "err", err |-> "Other", src |-> <<>>,
           files |-> fl, dirs |-> mk.dirs, nets |-> 1]
     ELSE [kind |-> "ok", err |-> "", src |-> Unwrap(net),
           files |-> w.files, dirs |-> mk.dirs, nets |-> 1]

\* a download that returns the text without writing the mirror
download_no_write(fl, ds, filename, net) ==
  IF ~IsSome(net)
  THEN [kind |-> "err", err |-> "Fetch", src |-> <<>>,
        files |-> fl, dirs |-> ds, nets |-> 1]
  ELSE [kind |-> "ok", err |-> "", src |-> Unwrap(net),
        files |-> fl, dirs |-> ds, nets |-> 1]

\* lines 135-142: retrieve the text, create the parent directories, write the
\* mirror.  net is the outcome of net::fetch_sync_string (None: it fails);
\* nets counts the retrievals performed.
download(fl, ds, filename, net) ==
  LET mk == IF IsSome(parent(filename))
            THEN CreateDirAll(fl, ds, Unwrap(parent(filename)))
            ELSE [ok |-> TRUE, dirs |-> ds]
      w == WriteFile(fl, mk.dirs, filename, Unwrap(net))
  IN IF ~IsSome(net)
     THEN [kind |-> "err", err |-> "Fetch", src |-> <<>>,
           files |-> fl, dirs |-> ds, nets |-> 1]
     ELSE IF ~mk.ok
     THEN [kind |-> "err", err |-> "Other", src |-> <<>>,
           files |-> fl, dirs |-> ds, nets |-> 1]
     ELSE IF ~w.ok
     THEN [kind |-> "err", err |-> "Other", src |-> <<>>,
           files |-> fl, dirs |-> mk.dirs, nets |-> 1]
     ELSE [kind |-> "ok", err |-> "", src |-> Unwrap(net),
           files |-> w.files, dirs |-> mk.dirs, nets |-> 1]

\* fs::read_to_string(path)? as a DenoResult, the filesystem untouched
read_source(fl, ds, filename) ==
  LET rd == ReadToString(fl, ds, filename)
  IN IF rd.ok
     THEN [kind |-> "ok", err |-> "", src |-> rd.val,
           files |-> fl, dirs |-> ds, nets |-> 0]
     ELSE [kind |-> "err", err |-> rd.kind, src |-> <<>>,
           files |-> fl, dirs |-> ds, nets |-> 0]

fetch_remote_source(fl, ds, rl, module_name, filename, net) ==
  IF must_download(fl, ds, rl, filename)
  THEN download(fl, ds, filename, net)
  ELSE read_source(fl, ds, filename)

\* a get_source_code without the branch for reserved asset names
get_source_code_reads_assets(fl, ds, rl, module_name, filename, net) ==
  IF is_remote(module_name)
  THEN fetch_remote_source(fl, ds, rl, module_name.uri, normalize_path(filename), net)
  ELSE IF to_string(module_name) # filename
  THEN [kind |-> "panic", err |-> "assert", src |-> <<>>,
        files |-> fl, dirs |-> ds, nets |-> 0]
  ELSE read_source(fl, ds, filename)

\* a get_source_code that retrieves a local module it does not find
get_source_code_fetches_missing(fl, ds, rl, module_name, filename, net) ==
  IF is_remote(module_name)
  THEN fetch_remote_source(fl, ds, rl, module_name.uri, normalize_path(filename), net)
  ELSE IF StartsWith(to_string(module_name), ASSET_PREFIX)
  THEN [kind |-> "panic", err |-> "asset", src |-> <<>>,
        files |-> fl, dirs |-> ds, nets |-> 0]
  ELSE IF to_string(module_name) # filename
  THEN [kind |-> "panic", err |-> "assert", src |-> <<>>,
        files |-> fl, dirs |-> ds, nets |-> 0]
  ELSE fetch_remote_source(fl, ds, rl, module_name.uri, filename, net)

\* get_source_code; kind "panic" is the process aborting
get_source_code(fl, ds, rl, module_name, filename, net) ==
  IF is_remote(module_name)
  THEN fetch_remote_source(fl, ds, rl, module_name.uri, normalize_path(filename), net)
  ELSE IF StartsWith(to_string(module_name), ASSET_PREFIX)
  THEN [kind |-> "panic", err |-> "asset", src |-> <<>>,
        files |-> fl, dirs |-> ds, nets |-> 0]
  ELSE IF to_string(module_name) # filename
  THEN [kind |-> "panic", err |-> "assert", src |-> <<>>,
        files |-> fl, dirs |-> ds, nets |-> 0]
  ELSE read_source(fl, ds, filename)

\* a resolver that takes the parent of every containing file, also of one
\* that ends in a separator
resolve_module_parent_always(module_specifier, containing_file) ==
  LET r == ParseUri(module_specifier)
      module_path == components_as_path(module_specifier)
      par == parent(containing_file)
  IN IF IsSome(r.scheme)
     THEN [kind |-> "ok", module_name |-> LocUrl(r),
           filename |-> get_cache_filename(Deps, r)]
     ELSE IF is_absolute(module_path)
     THEN [kind |-> "ok", module_name |-> LocPath(module_path),
           filename |-> module_path]
     ELSE IF IsSome(par)
     THEN [kind |-> "ok", module_name |-> LocPath(join(Unwrap(par), module_specifier)),
           filename |-> join(Unwrap(par), module_specifier)]
     ELSE [kind |-> "panic", module_name |-> LocPath(<<>>), filename |-> <<>>]

\* a resolver without the branch for absolute specifiers: every path is
\* joined to the directory of the containing file
resolve_module_no_absolute_branch(module_specifier, containing_file) ==
  LET r == ParseUri(module_specifier)
      par == IF EndsWith(containing_file, SEP)
             THEN Some(containing_file)
             ELSE parent(containing_file)
  IN IF IsSome(r.scheme)
     THEN [kind |-> "ok", module_name |-> LocUrl(r),
           filename |-> get_cache_filename(Deps, r)]
     ELSE IF IsSome(par)
     THEN [kind |-> "ok", module_name |-> LocPath(join(Unwrap(par), module_specifier)),
           filename |-> join(Unwrap(par), module_specifier)]
     ELSE [kind |-> "panic", module_name |-> LocPath(<<>>), filename |-> <<>>]

\* resolve_module: (module name, local filename), or the unwrap of a missing
\* parent aborting the process
resolve_module(module_specifier, containing_file) ==
  LET r == ParseUri(module_specifier)
      is_remote_url == IsSome(r.scheme)
      module_path == components_as_path(module_specifier)
      par == IF EndsWith(containing_file, SEP)
             THEN Some(containing_file)
             ELSE parent(containing_file)
  IN IF is_remote_url
     THEN [kind |-> "ok", module_name |-> LocUrl(r),
           filename |-> get_cache_filename(Deps, r)]
     ELSE IF is_absolute(module_path)
     THEN [kind |-> "ok", module_name |-> LocPath(module_path),
           filename |-> module_path]
     ELSE IF IsSome(par)
     THEN [kind |-> "ok", module_name |-> LocPath(join(Unwrap(par), module_specifier)),
           filename |-> join(Unwrap(par), module_specifier)]
     ELSE [kind |-> "panic", module_name |-> LocPath(<<>>), filename |-> <<>>]

\* a failed code_fetch: no CodeFetchOutput
NoOutput(kind, err) ==
  [kind |-> kind, err |-> err, module_name |-> <<>>, filename |-> <<>>,
   source_code |-> <<>>, maybe_output_code |-> None]

\* a match that reports every failed cache read, a missing file included
match_result_strict(out, result) ==
  IF ~result.ok
  THEN NoOutput("err", result.kind)
  ELSE [out EXCEPT !.maybe_output_code = Some(result.val)]

\* a match that takes every failed cache read for a missing file
match_result_lenient(out, result) ==
  IF ~result.ok
  THEN out
  ELSE [out EXCEPT !.maybe_output_code = Some(result.val)]

\* lines 203-217: the match on the result of load_cache
match_result(out, result) ==
  IF ~result.ok
  THEN IF result.kind = "NotFound" THEN out ELSE NoOutput("err", result.kind)
  ELSE [out EXCEPT !.maybe_output_code = Some(result.val)]

\* lines 190-217 once the source is obtained: the CodeFetchOutput, looked up
\* in the compile cache
fetched_output(rm, g) ==
  match_result([kind |-> "ok", err |-> "",
                module_name |-> to_string(rm.module_name),
                filename |-> rm.filename,
                source_code |-> g.src,
                maybe_output_code |-> None],
               load_cache(g.files, g.dirs, rm.filename, g.src))

\* lines 190-217: the result of code_fetch from that of get_source_code
with_source(rm, g) ==
  [out |-> IF g.kind # "ok" THEN NoOutput(g.kind, g.err) ELSE fetched_output(rm, g),
   files |-> g.files, dirs |-> g.dirs, nets |-> g.nets]

\* lines 183-217: code_fetch from the result of resolve_module
with_resolved(fl, ds, rl, rm, net) ==
  IF rm.kind = "panic"
  THEN [out |-> NoOutput("panic", "unwrap"), files |-> fl, dirs |-> ds, nets |-> 0]
  ELSE with_source(rm, get_source_code(fl, ds, rl, rm.module_name, rm.filename, net))

\* code_fetch: the CodeFetchOutput or the failure, and the filesystem after it
code_fetch(fl, ds, rl, module_specifier, containing_file, net) ==
  with_resolved(fl, ds, rl, resolve_module(module_specifier, containing_file), net)

(* ------------------------------------------------------------------ *)
(* Inputs                                                               *)
(* ------------------------------------------------------------------ *)
\* source and network texts
TextBC == <<"b", "c">>

TextC == <<"c">>

Texts == {TextBC, TextC}

\* compiled outputs
OutX == <<"x">>

OutY == <<"y">>

Outputs == {OutX, OutY}

\* local source files present from the start
FileA == <<"/", "s", "/", "a">>

FileAB == <<"/", "s", "/", "a", "b">>

\* module specifiers
SpecRelA == <<"a">>

SpecRelAB == <<"a", "b">>

SpecHttp == Http \o SchemeSep \o <<"h", "/", "a">>

SpecHttpPort == Http \o SchemeSep \o <<"h", ":", "1", "/", "a">>

SpecHttpsQuery == Https \o SchemeSep \o <<"h", "/", "a", "?", "q">>

SpecHttpB == Http \o SchemeSep \o <<"h", "/", "b">>

SpecHttpAbs == Http \o SchemeSep \o <<"h", "/">> \o FileA

SpecFtp == <<"f", "t", "p">> \o SchemeSep \o <<"h", "/", "a">>

SpecAsset == ASSET_PREFIX \o <<"a">>

\* the specifiers and containing files of the calls of code_fetch: local
\* modules that exist or not, remote modules that share a mirror or not, a
\* URL whose path holds an absolute path, a scheme that is not http(s), a
\* reserved asset name
Specifiers ==
  {FileA, SpecRelAB, SpecHttp, SpecHttpPort, SpecHttpB, SpecHttpAbs, SpecFtp, SpecAsset}

DirS == <<"/", "s", "/">>

InDirT == <<"/", "t", "/", "x">>

ContainingFiles == {DirS, InDirT}

\* the inputs of resolve_module taken alone
ResolveSpecifiers ==
  Specifiers \cup {SpecRelA, SpecHttpsQuery, FileA \o <<SEP>>, FileA \o <<SEP, ".">>,
                   <<".", "/", "a">>}

ResolveContainingFiles ==
  ContainingFiles \cup {<<"/", "s", "/", "x">>, <<"/", "s">>, <<SEP>>, <<"x">>, <<".">>, <<>>}

\* URLs whose path holds a path of the compile cache after its first
\* separator: the slot of (FileA, TextBC) itself, and a file below it
SpecHttpSlot == Http \o SchemeSep \o <<"h", "/">> \o cache_path(FileA, TextBC)

SpecHttpGen == SpecHttpSlot \o <<"/", "y">>

\* the specifiers of the calls of code_fetch that reach the compile cache
GenSpecifiers == {FileA, SpecHttpSlot, SpecHttpGen}

\* the mirror of SpecHttp, which SpecHttpPort shares
MirrorA == Deps \o <<"/", "h", "/", "a">>

\* filenames passed to code_cache
StoreFilenames == {FileA, FileAB, MirrorA}

\* outcomes of one network retrieval
NetOutcomes == {None} \cup {Some(t) : t \in Texts}

\* number of calls made on the directory in one behaviour
MaxOps == 3

(* ------------------------------------------------------------------ *)
(* State.  files, dirs and reload are the program's; last is the most   *)
(* recent call with its result; resolved is the most recent result of   *)
(* resolve_module taken alone.  firstStore, mon, retrieved and repeat    *)
(* are history variables: the arguments of the first code_cache call on *)
(* each slot, the progress of a fetch / store / fetch sequence (stage 1 *)
(* after a fetch without cached output, 2 after the store of its        *)
(* filename and source, 3 after the same fetch with the same source),   *)
(* the texts each URL has served to a successful fetch, and whether the *)
(* last call repeated the code_cache call before it.  race holds the    *)
(* processes that run code_cache step by step on the same directory:    *)
(* the position of each in the function, its arguments, what stood at   *)
(* its slot when it tested it, the order in which the writes ended, and *)
(* the last result of a concurrent load_cache with the number of writes *)
(* that had ended before it.                                            *)
(* ------------------------------------------------------------------ *)
VARIABLES files, dirs, reload, last, resolved, nops, firstStore, mon, retrieved, repeat,
          race

vars ==
  <<files, dirs, reload, last, resolved, nops, firstStore, mon, retrieved, repeat, race>>

NoCall ==
  [op |-> "new", a1 |-> <<>>, a2 |-> <<>>, a3 |-> <<>>, net |-> None, nets |-> 0,
   kind |-> "ok", err |-> "", module_name |-> <<>>, filename |-> <<>>,
   source_code |-> <<>>, maybe_output_code |-> None]

NoMon ==
  [stage |-> 0, spec |-> <<>>, cont |-> <<>>, filename |-> <<>>,
   source |-> <<>>, out |-> <<>>]

NoResolve ==
  [spec |-> <<>>, cont |-> <<>>, kind |-> "none",
   module_name |-> LocPath(<<>>), filename |-> <<>>]

\* the processes that share the directory
NumProcs == 2

Procs == 1..NumProcs

\* a process outside code_cache
Idle ==
  [pc |-> "idle", filename |-> <<>>, source_code |-> <<>>, output_code |-> <<>>,
   existed |-> FALSE, ok |-> TRUE]

NoRace == [procs |-> [p \in Procs |-> Idle], order |-> <<>>, seen |-> None, seenAt |-> 0]

\* the state DenoDir::new leaves: gen and deps exist, the reload flag is fixed
Init ==
  /\ files = (FileA :> TextBC) @@ (FileAB :> TextC)
  /\ dirs = {<<SEP>>, Cwd, Root, Gen, Deps}
  /\ reload \in BOOLEAN
  /\ last = NoCall
  /\ resolved = NoResolve
  /\ nops = 0
  /\ firstStore = [p \in {} |-> NoMon]
  /\ mon = NoMon
  /\ retrieved = [u \in {} |-> {}]
  /\ repeat = FALSE
  /\ race = NoRace

\* the slot of the compile cache a (filename, source) pair is kept in
Slot(filename, source_code) == Canon(cache_path(filename, source_code))

\* a call of code_cache(filename, source_code, output_code)
CodeCache(filename, source_code, output_code) ==
  /\ nops < MaxOps
  /\ \E r \in {code_cache(files, dirs, filename, source_code, output_code)} :
     /\ nops' = nops + 1
     /\ files' = r.files
     /\ last' = [NoCall EXCEPT !.op = "code_cache", !.a1 = filename,
                               !.a2 = source_code, !.a3 = output_code,
                               !.kind = IF r.ok THEN "ok" ELSE "err",
                               !.err = IF r.ok THEN "" ELSE "Other"]
     /\ firstStore' =
          IF Slot(filename, source_code) \in DOMAIN firstStore THEN firstStore
          ELSE (Slot(filename, source_code) :>
                  [filename |-> filename, source_code |-> source_code,
                   output_code |-> output_code]) @@ firstStore
     /\ mon' = IF /\ mon.stage = 1
                  /\ filename = mon.filename
                  /\ source_code = mon.source
                  /\ r.ok
               THEN [mon EXCEPT !.stage = 2, !.out = output_code]
               ELSE NoMon
     /\ repeat' = /\ last.op = "code_cache"
                  /\ last.a1 = filename
                  /\ last.a2 = source_code
                  /\ last.a3 = output_code
     /\ UNCHANGED <<dirs, reload, resolved, retrieved, race>>

\* a call of code_fetch(module_specifier, containing_file) during which the
\* network, if asked, answers net
CodeFetch(module_specifier, containing_file, net) ==
  /\ nops < MaxOps
  /\ \E r \in {code_fetch(files, dirs, reload, module_specifier, containing_file, net)} :
     /\ nops' = nops + 1
     /\ files' = r.files
     /\ dirs' = r.dirs
     /\ last' = [op |-> "code_fetch", a1 |-> module_specifier,
                 a2 |-> containing_file, a3 |-> <<>>,
                 net |-> IF r.nets = 1 THEN net ELSE None, nets |-> r.nets,
                 kind |-> r.out.kind, err |-> r.out.err,
                 module_name |-> r.out.module_name,
                 filename |-> r.out.filename,
                 source_code |-> r.out.source_code,
                 maybe_output_code |-> r.out.maybe_output_code]
     /\ mon' = IF /\ mon.stage = 2
                  /\ module_specifier = mon.spec
                  /\ containing_file = mon.cont
                  /\ r.out.kind = "ok"
                  /\ r.out.source_code = mon.source
               THEN [mon EXCEPT !.stage = 3]
               ELSE IF r.out.kind = "ok" /\ r.out.maybe_output_code = None
               THEN [stage |-> 1, spec |-> module_specifier,
                     cont |-> containing_file, filename |-> r.out.filename,
                     source |-> r.out.source_code, out |-> <<>>]
               ELSE NoMon
     /\ retrieved' =
          IF r.nets = 1 /\ r.out.kind = "ok"
          THEN (module_specifier :>
                  (IF module_specifier \in DOMAIN retrieved
                   THEN retrieved[module_specifier] ELSE {}) \cup {Unwrap(net)})
               @@ retrieved
          ELSE retrieved
     /\ repeat' = FALSE
     /\ UNCHANGED <<reload, resolved, firstStore, race>>

Next ==
  \/ \E f \in StoreFilenames, s \in Texts, o \in Outputs : CodeCache(f, s, o)
  \/ \E m \in Specifiers, c \in ContainingFiles, n \in NetOutcomes : CodeFetch(m, c, n)

Spec == Init /\ [][Next]_vars

\* the calls on one local module and on URLs that name paths of the
\* compile cache
NextGen ==
  \/ \E s \in Texts, o \in Outputs : CodeCache(FileA, s, o)
  \/ \E m \in GenSpecifiers, n \in NetOutcomes : CodeFetch(m, DirS, n)

SpecGen == Init /\ [][NextGen]_vars

\* compiled outputs of the concurrent stores, one longer than the others
OutYY == <<"y", "y">>

RaceOutputs == {OutX, OutY, OutYY}

\* process p enters code_cache(filename, source_code, output_code)
StoreCall(p, filename, source_code, output_code) ==
  /\ race.procs[p].pc = "idle"
  /\ race' = [race EXCEPT !.procs[p] =
                [Idle EXCEPT !.pc = "exists", !.filename = filename,
                             !.source_code = source_code,
                             !.output_code = output_code]]
  /\ UNCHANGED <<files, dirs, reload, last, resolved, nops, firstStore, mon,
                 retrieved, repeat>>

\* process p tests the slot (line 119) and returns Ok(()) when it exists
StoreExists(p) ==
  /\ race.procs[p].pc = "exists"
  /\ \E e \in {slot_exists(files, dirs, race.procs[p].filename,
                            race.procs[p].source_code)} :
       race' = [race EXCEPT
                  !.procs[p].pc = IF e THEN "done" ELSE "create",
                  !.procs[p].existed =
                     Canon(cache_path(race.procs[p].filename,
                                      race.procs[p].source_code))
                       \in (DOMAIN files \cup dirs)]
  /\ UNCHANGED <<files, dirs, reload, last, resolved, nops, firstStore, mon,
                 retrieved, repeat>>

\* process p opens the slot for writing (line 122)
StoreCreate(p) ==
  /\ race.procs[p].pc = "create"
  /\ \E w \in {file_create(files, dirs, race.procs[p].filename,
                            race.procs[p].source_code)} :
       /\ files' = w.files
       /\ race' = [race EXCEPT !.procs[p].pc = IF w.ok THEN "write" ELSE "done",
                               !.procs[p].ok = w.ok]
  /\ UNCHANGED <<dirs, reload, last, resolved, nops, firstStore, mon, retrieved, repeat>>

\* process p writes its output and returns (line 122)
StoreWriteAll(p) ==
  /\ race.procs[p].pc = "write"
  /\ files' = file_write_all(files, race.procs[p].filename,
                             race.procs[p].source_code, race.procs[p].output_code)
  /\ race' = [race EXCEPT !.procs[p].pc = "done", !.order = Append(@, p)]
  /\ UNCHANGED <<dirs, reload, last, resolved, nops, firstStore, mon, retrieved, repeat>>

\* a process reads the slot with load_cache(filename, source_code)
Lookup(filename, source_code) ==
  /\ \E c \in {load_cache(files, dirs, filename, source_code)} :
       race' = [race EXCEPT !.seen = IF c.ok THEN Some(c.val) ELSE None,
                            !.seenAt = Len(race.order)]
  /\ UNCHANGED <<files, dirs, reload, last, resolved, nops, firstStore, mon,
                 retrieved, repeat>>

\* processes that store outputs for one (filename, source) pair, and one
\* that looks it up
NextRace ==
  \/ \E p \in Procs, o \in RaceOutputs : StoreCall(p, FileA, TextBC, o)
  \/ \E p \in Procs : StoreExists(p)
  \/ \E p \in Procs : StoreCreate(p)
  \/ \E p \in Procs : StoreWriteAll(p)
  \/ Lookup(FileA, TextBC)

SpecRace == Init /\ [][NextRace]_vars

\* resolve_module taken alone, on a wider set of inputs
Resolve(module_specifier, containing_file) ==
  /\ \E rm \in {resolve_module(module_specifier, containing_file)} :
       resolved' = [spec |-> module_specifier, cont |-> containing_file,
                    kind |-> rm.kind, module_name |-> rm.module_name,
                    filename |-> rm.filename]
  /\ UNCHANGED <<files, dirs, reload, last, nops, firstStore, mon, retrieved, repeat, race>>

NextResolve ==
  \E m \in ResolveSpecifiers, c \in ResolveContainingFiles : Resolve(m, c)

SpecResolve == Init /\ [][NextResolve]_vars

TypeOK ==
  /\ reload \in BOOLEAN
  /\ nops \in 0..MaxOps
  /\ last.kind \in {"ok", "err", "panic"}
  /\ last.nets \in {0, 1}
  /\ mon.stage \in {0, 1, 2, 3}

(* ------------------------------------------------------------------ *)
(* Properties                                                           *)
(* ------------------------------------------------------------------ *)
\* whether resolve_module classifies the specifier as a module that
\* get_source_code obtains through fetch_remote_source
IsRemoteCall(module_specifier, containing_file) ==
  /\ resolve_module(module_specifier, containing_file).kind = "ok"
  /\ is_remote(resolve_module(module_specifier, containing_file).module_name)

\* the file that holds the local mirror of a remote module
MirrorOf(module_specifier, containing_file) ==
  Canon(resolve_module(module_specifier, containing_file).filename)

\* C1: first writer wins.  Every code_cache call returns success, and every
\* slot a code_cache call has targeted exists and holds the output_code of
\* the first call that targeted it, whatever later calls passed.
C1_FirstWriterWins ==
  /\ last.op = "code_cache" => last.kind = "ok"
  /\ \A p \in DOMAIN firstStore :
       p \in DOMAIN files /\ files[p] = firstStore[p].output_code

\* a later store of the same filename and source with another output has
\* returned success
C1_Witness ==
  /\ last.op = "code_cache"
  /\ last.kind = "ok"
  /\ Slot(last.a1, last.a2) \in DOMAIN firstStore
  /\ firstStore[Slot(last.a1, last.a2)].filename = last.a1
  /\ firstStore[Slot(last.a1, last.a2)].source_code = last.a2
  /\ firstStore[Slot(last.a1, last.a2)].output_code # last.a3

\* C2: store-then-fetch hit.  When code_fetch returned r without cached
\* output, code_cache(r.filename, r.source_code, X) followed, and the same
\* code_fetch call then obtained the same source text, that call returns the
\* same filename and maybe_output_code = Some(X).
C2_StoreThenFetchHit ==
  mon.stage = 3 =>
    /\ last.filename = mon.filename
    /\ last.maybe_output_code = Some(mon.out)

C2_Witness ==
  /\ mon.stage = 3
  /\ last.op = "code_fetch"
  /\ last.kind = "ok"
  /\ IsSome(last.maybe_output_code)

\* C3: cache-miss transparency.  Whenever a code_fetch call obtains the
\* source and nothing exists at the slot of (filename, source text), the call
\* returns a CodeFetchOutput with the module name, the local filename and the
\* source, and maybe_output_code = None; the missing file is not an error.
C3_CacheMissTransparent ==
  [][ last'.op = "code_fetch" =>
        \A rm \in {resolve_module(last'.a1, last'.a2)} :
          \A g \in {get_source_code(files, dirs, reload, rm.module_name,
                                    rm.filename, last'.net)} :
            (/\ rm.kind = "ok"
             /\ g.kind = "ok"
             /\ ~PathExists(g.files, g.dirs, cache_path(rm.filename, g.src)))
            => /\ last'.kind = "ok"
               /\ last'.module_name = to_string(rm.module_name)
               /\ last'.filename = rm.filename
               /\ last'.source_code = g.src
               /\ last'.maybe_output_code = None ]_vars

C3_Witness ==
  /\ last.op = "code_fetch"
  /\ last.kind = "ok"
  /\ last.maybe_output_code = None
  /\ ~PathExists(files, dirs, cache_path(last.filename, last.source_code))

\* C4: reload policy.  With the reload flag set, every code_fetch of an
\* http(s) module performs one network retrieval, also over an existing
\* mirror; it fails when the retrieval fails, and when it succeeds the source
\* it returns is the retrieved text and the mirror file holds that text.
C4_ReloadRefetches ==
  (reload /\ last.op = "code_fetch" /\ IsRemoteCall(last.a1, last.a2)) =>
    /\ last.nets = 1
    /\ last.net = None => last.kind = "err"
    /\ last.kind = "ok" =>
         /\ last.net = Some(last.source_code)
         /\ MirrorOf(last.a1, last.a2) \in DOMAIN files
         /\ files[MirrorOf(last.a1, last.a2)] = last.source_code

\* the URL was fetched before with another text: the mirror existed and was
\* overwritten
C4_Witness ==
  /\ reload
  /\ last.op = "code_fetch"
  /\ last.kind = "ok"
  /\ last.nets = 1
  /\ last.a1 \in DOMAIN retrieved
  /\ Cardinality(retrieved[last.a1]) = 2

\* C5: mirror reuse.  With the reload flag clear and a file at the mirror
\* path of an http(s) module, code_fetch performs no network retrieval,
\* leaves every file and directory as it was, and the source it obtains is
\* the content of that file.
C5_MirrorReuse ==
  [][ (~reload /\ last'.op = "code_fetch" /\ IsRemoteCall(last'.a1, last'.a2))
      => \A rm \in {resolve_module(last'.a1, last'.a2)} :
           Canon(rm.filename) \in DOMAIN files
           => /\ last'.nets = 0
              /\ files' = files
              /\ dirs' = dirs
              /\ last'.kind # "panic"
              /\ last'.kind = "ok" => last'.source_code = files[Canon(rm.filename)]
              /\ last'.kind = "err" =>
                   ~load_cache(files, dirs, rm.filename,
                               files[Canon(rm.filename)]).ok ]_vars

C5_Witness ==
  /\ ~reload
  /\ last.op = "code_fetch"
  /\ last.a1 = SpecHttp
  /\ last.kind = "ok"
  /\ last.nets = 0
  /\ last.source_code = files[MirrorA]

\* C6: a failed network retrieval is all-or-nothing.  The call returns the
\* fetch error, and every file and directory is as before: no parent
\* directory has been created, an existing mirror keeps its content and is
\* not returned in place of the text.
C6_FetchFailureWritesNothing ==
  [][ (last'.op = "code_fetch" /\ last'.nets = 1 /\ last'.net = None)
      => /\ last'.kind = "err"
         /\ last'.err = "Fetch"
         /\ files' = files
         /\ dirs' = dirs ]_vars

\* a retrieval failed over an existing mirror
C6_Witness ==
  /\ last.op = "code_fetch"
  /\ last.nets = 1
  /\ last.net = None
  /\ last.kind = "err"
  /\ MirrorOf(last.a1, last.a2) \in DOMAIN files

\* C7: fetch-then-mirror.  With the reload flag clear, a successful
\* code_fetch of an http(s) module without mirror file retrieves the text
\* once, writes the mirror with exactly that text and returns it; once a URL
\* has been fetched so, every later fetch of it performs no retrieval and
\* returns that same text.
C7_FetchThenMirror ==
  [][ (~reload /\ last'.op = "code_fetch" /\ IsRemoteCall(last'.a1, last'.a2))
      => /\ \A rm \in {resolve_module(last'.a1, last'.a2)} :
              (~PathExists(files, dirs, rm.filename) /\ last'.kind = "ok")
              => /\ last'.nets = 1
                 /\ last'.net = Some(last'.source_code)
                 /\ Canon(rm.filename) \in DOMAIN files'
                 /\ files'[Canon(rm.filename)] = last'.source_code
         /\ last'.a1 \in DOMAIN retrieved
            => \A rm \in {resolve_module(last'.a1, last'.a2)} :
                 /\ last'.nets = 0
                 /\ files' = files
                 /\ retrieved[last'.a1] = {files[Canon(rm.filename)]}
                 /\ last'.kind # "panic"
                 /\ last'.kind = "ok" => retrieved[last'.a1] = {last'.source_code}
                 /\ last'.kind = "err" =>
                      ~load_cache(files, dirs, rm.filename,
                                  files[Canon(rm.filename)]).ok ]_vars

C7_Witness ==
  /\ ~reload
  /\ last.op = "code_fetch"
  /\ last.kind = "ok"
  /\ last.nets = 0
  /\ last.a1 \in DOMAIN retrieved
  /\ retrieved[last.a1] = {last.source_code}

\* C8: a store on an absent slot succeeds and leaves the slot holding exactly
\* output_code; repeating the call with the same three arguments changes no
\* file and no directory.
C8_StoreWritesOnce ==
  [][ last'.op = "code_cache" =>
        /\ ~PathExists(files, dirs, cache_path(last'.a1, last'.a2))
           => /\ last'.kind = "ok"
              /\ Slot(last'.a1, last'.a2) \in DOMAIN files'
              /\ files'[Slot(last'.a1, last'.a2)] = last'.a3
        /\ repeat'
           => /\ last'.kind = "ok"
              /\ files' = files
              /\ dirs' = dirs ]_vars

\* the call that first wrote a slot has been repeated
C8_Witness ==
  /\ repeat
  /\ last.op = "code_cache"
  /\ last.kind = "ok"
  /\ firstStore[Slot(last.a1, last.a2)].output_code = last.a3
  /\ files[Slot(last.a1, last.a2)] = last.a3

\* C9: one cache slot per (filename, source) pair.  The compiled output a
\* code_fetch call returns was stored by a code_cache call for the very
\* filename and source text of that call.
C9_OneSlotPerPair ==
  (last.op = "code_fetch" /\ last.kind = "ok" /\ IsSome(last.maybe_output_code)) =>
    /\ Slot(last.filename, last.source_code) \in DOMAIN firstStore
    /\ firstStore[Slot(last.filename, last.source_code)].filename = last.filename
    /\ firstStore[Slot(last.filename, last.source_code)].source_code = last.source_code

\* the mirror path C10 states for a URL: depsDir/<host with port>/<path>
MirrorWithPort(u) == Deps \o <<SEP>> \o u.authority \o <<SEP>> \o Tail(u.path)

\* the mirror path of a URL whose path has one leading separator:
\* depsDir/<host without port>/<path>
MirrorWithoutPort(u) == Deps \o <<SEP>> \o u.host \o <<SEP>> \o Tail(u.path)

\* C10 as stated: a specifier that is a URL with a scheme resolves to a Url
\* location and to the mirror path depsDir/<host>/<path without its leading
\* separator>, the host segment holding the port when the URL has one.
C10_MirrorKeepsPort ==
  IsSome(ParseUri(resolved.spec).scheme) =>
    /\ resolved.kind = "ok"
    /\ resolved.module_name.tag = "Url"
    /\ resolved.filename = MirrorWithPort(ParseUri(resolved.spec))

\* C10 amended: such a specifier resolves to a Url location that prints as
\* the specifier, and to the mirror path depsDir/<host>/<path without its
\* leading separator> in which the host segment never holds the port; a URL
\* path that begins with two separators resolves to the path after the
\* first one, taken as an absolute path.
C10_MirrorDropsPort ==
  IsSome(ParseUri(resolved.spec).scheme) =>
    /\ resolved.kind = "ok"
    /\ resolved.module_name.tag = "Url"
    /\ to_string(resolved.module_name) = resolved.spec
    /\ resolved.filename =
         IF is_absolute(Tail(ParseUri(resolved.spec).path))
         THEN Tail(ParseUri(resolved.spec).path)
         ELSE MirrorWithoutPort(ParseUri(resolved.spec))

\* the URL with a port has been resolved to the mirror of the URL without it
C10_Witness ==
  /\ resolved.spec = SpecHttpPort
  /\ resolved.kind = "ok"
  /\ resolved.filename = MirrorA
  /\ ParseUri(resolved.spec).port = <<"1">>

(* ------------------------------------------------------------------ *)
(* Properties of resolve_module taken alone                             *)
(* ------------------------------------------------------------------ *)
\* a specifier that is neither a URL with a scheme nor an absolute path
IsRelativeSpecifier(s) == ~IsSome(ParseUri(s).scheme) /\ ~is_absolute(s)

\* an absolute path that is not a URL
IsAbsoluteSpecifier(s) == ~IsSome(ParseUri(s).scheme) /\ is_absolute(s)

\* a containing file that is not a directory and has no directory above it
HasNoParentDir(c) == ~EndsWith(c, SEP) /\ (parent(c) = None \/ parent(c) = Some(<<>>))

\* base, separator unless base is empty or ends in one, then s
JoinedText(base, s) ==
  IF base = <<>> \/ EndsWith(base, SEP) THEN base \o s ELSE base \o <<SEP>> \o s

\* C11: a relative specifier resolved against a containing file that does not
\* end in a separator and has no parent directory makes resolve_module return
\* an error: it neither returns a location nor aborts the process.
C11_BadContainingFileIsError ==
  (/\ resolved.kind # "none"
   /\ IsRelativeSpecifier(resolved.spec)
   /\ HasNoParentDir(resolved.cont))
  => resolved.kind = "err"

\* C13: a relative specifier resolves to the Path location base joined with
\* the specifier, where base is the containing file when it ends in a
\* separator and its parent otherwise; the local filename is that same path.
C13_RelativeJoinsBase ==
  (/\ resolved.kind # "none"
   /\ IsRelativeSpecifier(resolved.spec)
   /\ (EndsWith(resolved.cont, SEP) \/ IsSome(parent(resolved.cont))))
  => /\ resolved.kind = "ok"
     /\ resolved.module_name.tag = "Path"
     /\ to_string(resolved.module_name) = resolved.filename
     /\ resolved.filename =
          JoinedText(IF EndsWith(resolved.cont, SEP) THEN resolved.cont
                     ELSE Unwrap(parent(resolved.cont)),
                     resolved.spec)

\* a relative specifier has been resolved against a directory
C13_Witness ==
  /\ resolved.spec = SpecRelAB
  /\ resolved.cont = DirS
  /\ resolved.kind = "ok"
  /\ resolved.filename = FileAB

\* C14 as stated: an absolute specifier resolves, against every containing
\* file, to the Path location and the local filename equal to the specifier.
C14_AbsoluteIsSpecifier ==
  (resolved.kind # "none" /\ IsAbsoluteSpecifier(resolved.spec))
  => /\ resolved.kind = "ok"
     /\ resolved.module_name.tag = "Path"
     /\ to_string(resolved.module_name) = resolved.spec
     /\ resolved.filename = resolved.spec

\* C14 amended: an absolute specifier resolves, against every containing
\* file, to the specifier without its trailing separators and trailing "."
\* components, as Path location and as local filename; the containing file
\* has no part in the result.
C14_AbsoluteIsTrimmedSpecifier ==
  (resolved.kind # "none" /\ IsAbsoluteSpecifier(resolved.spec))
  => /\ resolved.kind = "ok"
     /\ resolved.module_name.tag = "Path"
     /\ to_string(resolved.module_name) = resolved.filename
     /\ resolved.filename = components_as_path(resolved.spec)
     /\ StartsWith(resolved.spec, resolved.filename)
     /\ ~EndsWith(resolved.filename, SEP) \/ resolved.filename = <<SEP>>

\* an absolute specifier with a trailing separator has been resolved against
\* the empty containing file
C14_Witness ==
  /\ resolved.spec = FileA \o <<SEP>>
  /\ resolved.cont = <<>>
  /\ resolved.kind = "ok"
  /\ resolved.filename = FileA

(* ------------------------------------------------------------------ *)
(* Properties of code_fetch on local and reserved locations             *)
(* ------------------------------------------------------------------ *)
\* the location is a local one whose text begins with the asset prefix
IsReserved(rm) ==
  /\ rm.kind = "ok"
  /\ ~is_remote(rm.module_name)
  /\ StartsWith(to_string(rm.module_name), ASSET_PREFIX)

\* the location is a local path outside the reserved names
IsLocal(rm) ==
  /\ rm.kind = "ok"
  /\ rm.module_name.tag = "Path"
  /\ ~StartsWith(to_string(rm.module_name), ASSET_PREFIX)

\* C12 as stated: code_fetch of a specifier whose local location begins with
\* "/$asset$/" returns an error value to its caller, with no retrieval.
C12_ReservedIsErrorValue ==
  (last.op = "code_fetch" /\ IsReserved(resolve_module(last.a1, last.a2)))
  => /\ last.kind = "err"
     /\ last.nets = 0

\* C12 amended: code_fetch of such a specifier aborts the process at the
\* panic of get_source_code; no retrieval is performed and every file and
\* directory is as before.
C12_ReservedPanics ==
  [][ last'.op = "code_fetch" =>
        \A rm \in {resolve_module(last'.a1, last'.a2)} :
          IsReserved(rm)
          => /\ last'.kind = "panic"
             /\ last'.err = "asset"
             /\ last'.nets = 0
             /\ files' = files
             /\ dirs' = dirs ]_vars

C12_Witness ==
  /\ last.op = "code_fetch"
  /\ last.a1 = SpecAsset
  /\ last.kind = "panic"
  /\ last.err = "asset"

\* C15: code_fetch of a local module with nothing at its resolved path
\* returns an error and no output, the not-found error unless a file stands
\* where a directory of the path should be; it performs no retrieval and
\* leaves every file and directory as before.
C15_MissingLocalIsError ==
  [][ last'.op = "code_fetch" =>
        \A rm \in {resolve_module(last'.a1, last'.a2)} :
          (IsLocal(rm) /\ ~PathExists(files, dirs, rm.filename))
          => /\ last'.kind = "err"
             /\ last'.err \in {"NotFound", "Other"}
             /\ Ancestors(Canon(rm.filename)) \cap DOMAIN files = {}
                  => last'.err = "NotFound"
             /\ last'.maybe_output_code = None
             /\ last'.source_code = <<>>
             /\ last'.nets = 0
             /\ files' = files
             /\ dirs' = dirs ]_vars

\* a relative specifier has been fetched from a directory that does not hold it
C15_Witness ==
  /\ last.op = "code_fetch"
  /\ last.a1 = SpecRelAB
  /\ last.a2 = InDirT
  /\ last.kind = "err"
  /\ last.err = "NotFound"
  /\ last.nets = 0

\* C17: the assertion of get_source_code never fails.  Every location
\* resolve_module classifies as a URL is obtained through
\* fetch_remote_source, and no code_fetch call ends at the assertion "if a
\* module isn't remote, it should have the same filename".
C17_AssertionNeverFails ==
  last.op = "code_fetch" =>
    \A rm \in {resolve_module(last.a1, last.a2)} :
      /\ (rm.kind = "ok" /\ rm.module_name.tag = "Url") => is_remote(rm.module_name)
      /\ ~(last.kind = "panic" /\ last.err = "assert")

\* C19: mirror files are not shared between URLs.  With the reload flag
\* clear, a code_fetch of an http(s) module that performs no retrieval reads
\* a mirror that no other URL has been retrieved into, and the text it
\* returns was retrieved from its own URL.
C19_MirrorNotShared ==
  (/\ ~reload
   /\ last.op = "code_fetch"
   /\ last.kind = "ok"
   /\ last.nets = 0
   /\ IsRemoteCall(last.a1, last.a2))
  => \A u \in DOMAIN retrieved :
       MirrorOf(u, last.a2) = MirrorOf(last.a1, last.a2)
       => /\ u = last.a1
          /\ last.source_code \in retrieved[last.a1]

(* ------------------------------------------------------------------ *)
(* Properties of code_fetch with respect to the compile cache           *)
(* ------------------------------------------------------------------ *)
\* C16: when code_fetch has obtained the source and the read of the slot
\* fails otherwise than by the slot not existing, code_fetch returns that
\* error and no CodeFetchOutput; the failure of kind NotFound alone gives a
\* successful result without compiled output.
C16_CacheReadFailurePropagates ==
  [][ last'.op = "code_fetch" =>
        \A rm \in {resolve_module(last'.a1, last'.a2)} :
          \A g \in {get_source_code(files, dirs, reload, rm.module_name,
                                    rm.filename, last'.net)} :
            (rm.kind = "ok" /\ g.kind = "ok")
            => \A c \in {ReadToString(g.files, g.dirs,
                                       cache_path(rm.filename, g.src))} :
                 /\ (~c.ok /\ c.kind # "NotFound")
                    => /\ last'.kind = "err"
                       /\ last'.err = c.kind
                       /\ last'.filename = <<>>
                       /\ last'.source_code = <<>>
                       /\ last'.maybe_output_code = None
                 /\ (~c.ok /\ c.kind = "NotFound")
                    => /\ last'.kind = "ok"
                       /\ last'.source_code = g.src
                       /\ last'.maybe_output_code = None ]_vars

\* the source of FileA was read while a directory stands at its slot
C16_Witness ==
  /\ last.op = "code_fetch"
  /\ last.a1 = FileA
  /\ last.kind = "err"
  /\ last.err = "Other"
  /\ Slot(FileA, files[FileA]) \in dirs

\* the files of fl below the gen directory, with their contents
GenFiles(fl) == {<<p, fl[p]>> : p \in {q \in DOMAIN fl : StartsWith(q, Gen \o <<SEP>>)}}

\* C20: code_fetch never changes the compile cache.  Every call, successful
\* or failing, leaves the files below gen as they were, and a call for a
\* local module leaves every file and directory as it was.
C20_FetchLeavesGenUnchanged ==
  [][ last'.op = "code_fetch" =>
        /\ GenFiles(files') = GenFiles(files)
        /\ \A rm \in {resolve_module(last'.a1, last'.a2)} :
             (rm.kind = "ok" /\ rm.module_name.tag = "Path")
             => files' = files /\ dirs' = dirs ]_vars

(* ------------------------------------------------------------------ *)
(* Properties of concurrent code_cache calls                            *)
(* ------------------------------------------------------------------ *)
\* C18: the test of the slot and the write are separate steps of code_cache.
\* A process goes on to write exactly when nothing stood at the slot at the
\* moment of its own test, whatever has been written since; its open
\* empties the slot, and when its write ends the slot begins with its own
\* output_code, also over the output of a process that wrote before it.
C18_CheckNotAtomicWithWrite ==
  [][ \A p \in Procs :
        /\ (race.procs[p].pc = "exists" /\ race'.procs[p].pc # "exists")
           => (race'.procs[p].pc = "create")
                = (Slot(race.procs[p].filename, race.procs[p].source_code)
                     \notin (DOMAIN files \cup dirs))
        /\ (race.procs[p].pc = "create" /\ race'.procs[p].pc # "create")
           => /\ race'.procs[p].pc = "write"
              /\ files'[Slot(race.procs[p].filename, race.procs[p].source_code)] = <<>>
        /\ (race.procs[p].pc = "write" /\ race'.procs[p].pc # "write")
           => /\ race'.procs[p].pc = "done"
              /\ StartsWith(files'[Slot(race.procs[p].filename,
                                        race.procs[p].source_code)],
                            race.procs[p].output_code) ]_vars

\* two processes stored different outputs for the same pair, both found the
\* slot absent and both wrote; a lookup read the output of the first between
\* the two writes, and the slot now holds the output of the second
C18_Witness ==
  /\ Len(race.order) >= 2
  /\ \E p \in Procs, q \in Procs :
       /\ p = race.order[1]
       /\ q = race.order[2]
       /\ p # q
       /\ race.procs[p].filename = race.procs[q].filename
       /\ race.procs[p].source_code = race.procs[q].source_code
       /\ race.procs[p].output_code # race.procs[q].output_code
       /\ ~race.procs[p].existed
       /\ ~race.procs[q].existed
       /\ race.seenAt = 1
       /\ race.seen = Some(race.procs[p].output_code)
       /\ files[Slot(race.procs[p].filename, race.procs[p].source_code)]
            = race.procs[q].output_code

====
